---- MODULE Spec2Model ----
(***************************************************************************)
(* Model of backend/app.py: the timetable normalizer (load_and_clean_data) *)
(* and the grid builder (generate_schedule_excel) driven by one request    *)
(* (handle_request).                                                       *)
(*                                                                         *)
(* Text values are TLA+ strings.  A text built by concatenation            *)
(* (INTAKE_GROUP, a cell's display text, a matrix cell) is the sequence of *)
(* the pieces concatenated, so that joins and appends are computed and can *)
(* be taken apart again.  A time of day "HH:MM:SS" is its number of        *)
(* seconds since midnight: zero-padded texts compare like these numbers.   *)
(***************************************************************************)
EXTENDS Integers, Sequences, FiniteSets, TLC

VARIABLES
    request,        \* the upload: file state, view, raw columns, raw rows
    pc,             \* position of the handler
    df,             \* rows of the cleaned frame (load_and_clean_data's result)
    df_columns,     \* columns of the cleaned frame
    df_grouped,     \* occupancy entries, in groupby order
    unique_days,    \* day labels in emission order
    day_i,          \* position of the day loop in unique_days
    row_i,          \* position of the fill loop in the day's entries
    unique_primary, \* rows of the current matrix
    matrix_df,      \* the current matrix: primary value -> slot -> cell
    sheets,         \* matrices handed to the writer, in order
    response        \* what the handler returns

vars == <<request, pc, df, df_columns, df_grouped, unique_days, day_i, row_i,
          unique_primary, matrix_df, sheets, response>>

(***************************************************************************)
(* Bounds of the model.                                                    *)
(***************************************************************************)
MaxRows == 3

(***************************************************************************)
(* Values.                                                                 *)
(***************************************************************************)
\* A missing value (numpy NaN / pandas NaT) of a text cell.
NaN == "<NaN>"

\* Python's order on str, on the texts the model uses (ascending code points).
StrOrder ==
    << "", " Monday", "101", "102", "A", "B", "CAMP", "Camp", "EXAM", "Exam",
       "FRI", "G1", "G2", "JAN", "MONDAY", "Math", "Monday", "Sci", "WED",
       "nan", "wed" >>

StrRank(s) == CHOOSE i \in 1..Len(StrOrder) : StrOrder[i] = s

StrLess(a, b) == StrRank(a) < StrRank(b)

\* str.strip()
Strip(s) ==
    CASE s = " Monday"     -> "Monday"
      [] s = " 101 "       -> "101"
      [] s = " A"          -> "A"
      [] s = "Day "        -> "Day"
      [] s = " start time" -> "start time"
      [] OTHER             -> s

\* str.upper()
Upper(s) ==
    CASE s = "Monday"     -> "MONDAY"
      [] s = "wed"        -> "WED"
      [] s = "Camp"       -> "CAMP"
      [] s = "Exam"       -> "EXAM"
      [] s = "nan"        -> "NAN"
      [] s = "Day"        -> "DAY"
      [] s = "start time" -> "START TIME"
      [] s = "Teacher"    -> "TEACHER"
      [] OTHER            -> s

\* Series.astype(str): a missing value becomes the text "nan".
AsStr(v) == IF v = NaN THEN "nan" ELSE v

(***************************************************************************)
(* generate_time_slots                                                     *)
(***************************************************************************)
SlotStart == 29100
SlotEnd == 63300
SlotStep == 1800

\* Two decimal digits, zero-padded (%H, %M, %S).
Fmt2(n) == IF n < 10 THEN "0" \o ToString(n) ELSE ToString(n)

\* strftime("%H:%M:%S") of a time of day given in seconds since midnight.
strftime(t) ==
    Fmt2(t \div 3600) \o ":" \o Fmt2((t % 3600) \div 60) \o ":" \o Fmt2(t % 60)

RECURSIVE SlotsFrom(_)
SlotsFrom(current) ==
    IF current <= SlotEnd
    THEN <<strftime(current)>> \o SlotsFrom(current + SlotStep)
    ELSE <<>>

generate_time_slots == SlotsFrom(SlotStart)

time_slots == generate_time_slots

Range(s) == {s[i] : i \in 1..Len(s)}

RECURSIVE SelectSeq2(_, _)
\* The subsequence of s at the positions in keep, in order.
SelectSeq2(s, keep) ==
    IF s = <<>> THEN <<>>
    ELSE SelectSeq2(SubSeq(s, 1, Len(s) - 1), keep)
         \o (IF Len(s) \in keep THEN <<s[Len(s)]>> ELSE <<>>)

(***************************************************************************)
(* load_and_clean_data                                                     *)
(***************************************************************************)
required_cols == <<"DAY", "START TIME", "SUBJECT", "TEACHER", "ROOM", "GROUP", "INTAKE">>

text_cols == <<"ROOM", "GROUP", "TEACHER", "SUBJECT", "INTAKE">>

\* Column Mapping: with both DAY and DAY.1 present, DAY is dropped and DAY.1
\* renamed to DAY (the names are matched as read, before normalisation).
HasDuplicateDay(cols) == "DAY" \in cols /\ "DAY.1" \in cols

MappedColumns(cols) == IF HasDuplicateDay(cols) THEN cols \ {"DAY.1"} ELSE cols

\* df.columns.str.strip().str.upper()
NormalizedColumns(cols) == {Upper(Strip(c)) : c \in MappedColumns(cols)}

missing_cols(cols) ==
    SelectSeq(required_cols, LAMBDA c : c \notin NormalizedColumns(cols))

existing_cols(cols) ==
    SelectSeq(required_cols, LAMBDA c : c \in NormalizedColumns(cols))

\* The cell of a raw row under the (normalised) column name col.
RawCell(row, cols, col) ==
    CASE col = "DAY"        -> IF HasDuplicateDay(cols) THEN row.DAY1 ELSE row.DAY
      [] col = "START TIME" -> row.START
      [] col = "SUBJECT"    -> row.SUBJECT
      [] col = "TEACHER"    -> row.TEACHER
      [] col = "ROOM"       -> row.ROOM
      [] col = "GROUP"      -> row.GROUP
      [] col = "INTAKE"     -> row.INTAKE

\* A missing time (NaT, then NaN after strftime).
NaT == -1

\* pd.to_datetime(..., format='%H:%M:%S') accepts a cell that reads HH:MM:SS.
StrictParses(cell) == cell.kind = "hms"

\* pd.to_datetime(..., errors='coerce') also accepts a date-time value;
\* anything else becomes NaT.
CoerceParse(cell) == IF cell.kind \in {"hms", "dt"} THEN cell.secs ELSE NaT

\* Standardize Time: the strict parse of the whole column, or, when it raises
\* on any cell, the coercing parse of the whole column.
StandardizeTime(rows) ==
    IF \A i \in 1..Len(rows) : StrictParses(rows[i].START)
    THEN [i \in 1..Len(rows) |-> rows[i].START.secs]
    ELSE [i \in 1..Len(rows) |-> CoerceParse(rows[i].START)]

\* .dt.strftime('%H:%M:%S'): NaT becomes NaN.
StartText(t) == IF t = NaT THEN NaN ELSE strftime(t)

\* Faulty variant: the rows without a start time are not dropped.
SurvivingAll(rows) == 1..Len(rows)

\* df.dropna(subset=['START TIME']): the positions that stay.
Surviving(rows) ==
    {i \in 1..Len(rows) : StartText(StandardizeTime(rows)[i]) # NaN}

\* pd.Series([""] * len(df)) has the labels 0..len(df)-1; assigned to a column
\* it is aligned on the frame's own labels, and a label it lacks gets NaN.
DefaultText(label, n) == IF label < n THEN "" ELSE NaN

\* Clean Text Columns: df.get(col, default).astype(str).str.strip()
CleanText(row, cols, col, label, n) ==
    IF col \in NormalizedColumns(cols)
    THEN Strip(AsStr(RawCell(row, cols, col)))
    ELSE DefaultText(label, n)

\* df['INTAKE'] + " " + df['GROUP']: NaN when either side is NaN.
IntakeGroup(intake, group) ==
    IF intake = NaN \/ group = NaN THEN <<NaN>> ELSE <<intake, " ", group>>

CleanRow(row, cols, label, n, start) ==
    LET txt(col) == CleanText(row, cols, col, label, n) IN
    [ idx          |-> label,
      DAY          |-> IF "DAY" \in NormalizedColumns(cols)
                       THEN RawCell(row, cols, "DAY") ELSE NaN,
      START        |-> start,
      SUBJECT      |-> txt("SUBJECT"),
      TEACHER      |-> txt("TEACHER"),
      ROOM         |-> txt("ROOM"),
      GROUP        |-> txt("GROUP"),
      INTAKE       |-> txt("INTAKE"),
      INTAKE_GROUP |-> IntakeGroup(txt("INTAKE"), txt("GROUP")) ]

SchemaOk(cols) == "START TIME" \in NormalizedColumns(cols)

\* The frame load_and_clean_data returns (labels are 0-based positions in the
\* merged table).
load_and_clean_data(rows, cols) ==
    LET keep == Surviving(rows)
        all  == [i \in 1..Len(rows) |->
                    CleanRow(rows[i], cols, i - 1, Cardinality(keep),
                             StartText(StandardizeTime(rows)[i]))]
    IN  SelectSeq2(all, keep)

CleanedColumns(cols) ==
    Range(existing_cols(cols)) \cup Range(text_cols) \cup {"INTAKE_GROUP"}

(***************************************************************************)
(* generate_schedule_excel: grouping and day order                         *)
(***************************************************************************)
\* The times of day the model's inputs and the axis use; a time text is
\* compared through the time it denotes (zero-padded texts sort alike).
ClockTimes ==
    {SlotStart + k * SlotStep : k \in 0..((SlotEnd - SlotStart) \div SlotStep)}
    \cup {9 * 3600}

ClockTexts == [t \in ClockTimes |-> strftime(t)]

SecondsOf ==
    [txt \in {ClockTexts[t] : t \in ClockTimes} |->
        CHOOSE t \in ClockTimes : ClockTexts[t] = txt]

Seconds(txt) == SecondsOf[txt]

group_cols == <<"DAY", "START TIME", "SUBJECT", "TEACHER", "ROOM">>

GroupKey(r) == <<r.DAY, r.START, r.SUBJECT, r.TEACHER, r.ROOM>>

\* Tuple order of the group keys (groupby sorts its keys).
KeyLess(a, b) ==
    \/ StrLess(a[1], b[1])
    \/ a[1] = b[1] /\ Seconds(a[2]) < Seconds(b[2])
    \/ a[1] = b[1] /\ a[2] = b[2] /\ StrLess(a[3], b[3])
    \/ a[1] = b[1] /\ a[2] = b[2] /\ a[3] = b[3] /\ StrLess(a[4], b[4])
    \/ a[1] = b[1] /\ a[2] = b[2] /\ a[3] = b[3] /\ a[4] = b[4] /\ StrLess(a[5], b[5])

RECURSIVE SortKeys(_)
SortKeys(K) ==
    IF K = {} THEN <<>>
    ELSE LET m == CHOOSE k \in K : \A o \in K \ {k} : KeyLess(k, o)
         IN  <<m>> \o SortKeys(K \ {m})

\* groupby drops a row with a missing value in any key column (dropna=True).
HasNaKey(r) == \E i \in 1..5 : GroupKey(r)[i] = NaN

GroupRows(frame, key) ==
    SelectSeq(frame, LAMBDA r : ~HasNaKey(r) /\ GroupKey(r) = key)

RECURSIVE Unique(_)
\* Series.unique(): the distinct values in order of first appearance.
Unique(s) ==
    IF s = <<>> THEN <<>>
    ELSE LET u == Unique(SubSeq(s, 1, Len(s) - 1))
         IN  IF s[Len(s)] \in Range(u) THEN u ELSE Append(u, s[Len(s)])

RECURSIVE Join(_, _)
\* sep.join(parts) on texts held as sequences of pieces.
Join(parts, sep) ==
    IF parts = <<>> THEN <<>>
    ELSE IF Len(parts) = 1 THEN parts[1]
    ELSE parts[1] \o <<sep>> \o Join(Tail(parts), sep)

IntakeGroups(frame, key) ==
    Unique([i \in 1..Len(GroupRows(frame, key)) |->
                GroupRows(frame, key)[i].INTAKE_GROUP])

GroupKeys(frame) == {GroupKey(frame[i]) : i \in {j \in 1..Len(frame) : ~HasNaKey(frame[j])}}

\* str.join raises TypeError on a NaN among the values of a group.
JoinRaises(frame) ==
    \E key \in GroupKeys(frame) : <<NaN>> \in Range(IntakeGroups(frame, key))

\* df.groupby(group_cols)['INTAKE_GROUP'].apply(join of unique).reset_index()
Grouped(frame) ==
    LET keys == SortKeys(GroupKeys(frame)) IN
    [i \in 1..Len(keys) |->
        [ DAY          |-> keys[i][1],
          START        |-> keys[i][2],
          SUBJECT      |-> keys[i][3],
          TEACHER      |-> keys[i][4],
          ROOM         |-> keys[i][5],
          INTAKE_GROUP |-> Join(IntakeGroups(frame, keys[i]), "\n") ]]

day_rank(d) ==
    CASE d \in {"MON", "MONDAY"}    -> 0
      [] d \in {"TUE", "TUESDAY"}   -> 1
      [] d \in {"WED", "WEDNESDAY"} -> 2
      [] d \in {"THU", "THURSDAY"}  -> 3
      [] d \in {"FRI", "FRIDAY"}    -> 4
      [] d \in {"SAT", "SATURDAY"}  -> 5
      [] d \in {"SUN", "SUNDAY"}    -> 6
      [] OTHER                      -> 99

\* Faulty variant: the label is looked up as it is, neither trimmed nor uppercased.
DayKeyRaw(d) == day_rank(d)

\* key=lambda d: day_rank.get(str(d).strip().upper(), 99)
DayKey(d) == day_rank(Upper(Strip(d)))

\* Faulty variant: a sort that is not stable (equal keys come out reversed).
SortedByKeyUnstable(s, key) ==
    LET pos(i) == 1 + Cardinality({j \in 1..Len(s) :
                        \/ key[s[j]] < key[s[i]]
                        \/ key[s[j]] = key[s[i]] /\ j > i})
    IN  [k \in 1..Len(s) |-> s[CHOOSE i \in 1..Len(s) : pos(i) = k]]

\* sorted(s, key=...): stable, ascending in the key (key is a function on
\* the elements of s).
SortedByKey(s, key) ==
    LET pos(i) == 1 + Cardinality({j \in 1..Len(s) :
                        \/ key[s[j]] < key[s[i]]
                        \/ key[s[j]] = key[s[i]] /\ j < i})
    IN  [k \in 1..Len(s) |-> s[CHOOSE i \in 1..Len(s) : pos(i) = k]]

DayColumn(g) == [i \in 1..Len(g) |-> g[i].DAY]

UniqueDays(g) ==
    LET days == Unique(DayColumn(g))
    IN  SortedByKey(days, [d \in Range(days) |-> DayKey(d)])

(***************************************************************************)
(* generate_schedule_excel: one day's matrix                               *)
(***************************************************************************)
primary_col(view) == IF view = "room" THEN "ROOM" ELSE "TEACHER"

display_cols(view) ==
    IF view = "room"
    THEN <<"TEACHER", "SUBJECT", "INTAKE_GROUP">>
    ELSE <<"ROOM", "SUBJECT", "INTAKE_GROUP">>

\* row[col] of a grouped row, as a text held in pieces.
Field(row, col) ==
    CASE col = "DAY"          -> <<row.DAY>>
      [] col = "START TIME"   -> <<row.START>>
      [] col = "SUBJECT"      -> <<row.SUBJECT>>
      [] col = "TEACHER"      -> <<row.TEACHER>>
      [] col = "ROOM"         -> <<row.ROOM>>
      [] col = "INTAKE_GROUP" -> row.INTAKE_GROUP

PrimaryVal(row, view) == Field(row, primary_col(view))[1]

\* "\n".join([row[col] for col in display_cols])
CellText(row, view) ==
    Join([i \in 1..3 |-> Field(row, display_cols(view)[i])], "\n")

\* df_grouped[df_grouped['DAY'] == day]
DayData(g, day) == SelectSeq(g, LAMBDA r : r.DAY = day)

\* Faulty variant: the empty text and "nan" are not filtered out.
UniquePrimaryUnfiltered(day_data, view) ==
    LET vals == Unique([i \in 1..Len(day_data) |-> PrimaryVal(day_data[i], view)])
    IN  SortedByKey(vals, [x \in Range(vals) |-> StrRank(x)])

\* sorted([x for x in day_data[primary_col].unique() if x != "nan" and x != ""])
UniquePrimary(day_data, view) ==
    LET vals  == Unique([i \in 1..Len(day_data) |-> PrimaryVal(day_data[i], view)])
        valid == SelectSeq(vals, LAMBDA x : x # "nan" /\ x # "")
    IN  SortedByKey(valid, [x \in Range(valid) |-> StrRank(x)])

matrix_cols(view) == <<primary_col(view)>> \o time_slots

\* An empty cell of the matrix.
NaNCell == <<NaN>>

\* pd.DataFrame(index=unique_primary, columns=matrix_cols), then the primary
\* column set to the index.
InitMatrix(index, view) ==
    [r \in Range(index) |->
        [c \in Range(matrix_cols(view)) |->
            IF c = primary_col(view) THEN <<r>> ELSE NaNCell]]

Separator == "\n---\n"

\* Faulty variant: the write replaces what the cell held.
update_cell_overwrite(m, r, c, text) == [m EXCEPT ![r][c] = text]

\* Faulty variant: the new text is put before what the cell held.
update_cell_prepend(m, r, c, text) ==
    IF m[r][c] = NaNCell
    THEN [m EXCEPT ![r][c] = text]
    ELSE [m EXCEPT ![r][c] = text \o <<Separator>> \o @]

update_cell(m, r, c, text) ==
    IF m[r][c] = NaNCell
    THEN [m EXCEPT ![r][c] = text]
    ELSE [m EXCEPT ![r][c] = @ \o <<Separator>> \o text]

\* matrix_cols.index(x), counted from 1.
IndexOf(cols, x) == CHOOSE i \in 1..Len(cols) : cols[i] = x /\ \A j \in 1..(i - 1) : cols[j] # x

\* Faulty variant: the bound is the length of the axis instead of that of matrix_cols.
HasNextSlotOffByOne(cols, pos) == (pos - 1) + 1 < Len(cols) - 1

\* Whether the slot after position pos exists (start_idx + 1 < len(matrix_cols),
\* with start_idx = pos - 1).
HasNextSlot(cols, pos) == (pos - 1) + 1 < Len(cols)

\* The body of the fill loop for one grouped row.
FillMatrix(m, row, view) ==
    LET primary_val == PrimaryVal(row, view)
        start_str   == row.START
        cell_text   == CellText(row, view)
        cols        == matrix_cols(view)
    IN  IF primary_val \notin DOMAIN m THEN m
        ELSE IF start_str \notin Range(cols) THEN m
        ELSE LET m1  == update_cell(m, primary_val, start_str, cell_text)
                 pos == IndexOf(cols, start_str)
             IN  IF HasNextSlot(cols, pos)
                 THEN update_cell(m1, primary_val, cols[pos + 1], cell_text)
                 ELSE m1

(***************************************************************************)
(* The uploads the model is run on.                                        *)
(***************************************************************************)
\* 09:00:00, a time of day that is not on the axis.
OffAxisTime == 9 * 3600

hms(t) == [kind |-> "hms", secs |-> t]

dt(t) == [kind |-> "dt", secs |-> t]

junk == [kind |-> "junk", secs |-> NaT]

blank == [kind |-> "nan", secs |-> NaT]

RawRow(day, start, subject, teacher, room, group, intake) ==
    [ DAY |-> day, DAY1 |-> NaN, START |-> start, SUBJECT |-> subject,
      TEACHER |-> teacher, ROOM |-> room, GROUP |-> group, INTAKE |-> intake ]

AllColumns == {"DAY", "START TIME", "SUBJECT", "TEACHER", "ROOM", "GROUP", "INTAKE"}

\* All sequences over S of length at most n.
SeqUpTo(S, n) == UNION {[1..k -> S] : k \in 0..n}

\* A raw row as read under the columns cols: a column the sheet lacks has no cell.
Cells(row, cols) ==
    LET has(col) == \E c \in cols : Upper(Strip(c)) = col IN
    [ DAY     |-> IF has("DAY") THEN row.DAY ELSE NaN,
      DAY1    |-> IF has("DAY.1") THEN row.DAY1 ELSE NaN,
      START   |-> IF has("START TIME") THEN row.START ELSE blank,
      SUBJECT |-> IF has("SUBJECT") THEN row.SUBJECT ELSE NaN,
      TEACHER |-> IF has("TEACHER") THEN row.TEACHER ELSE NaN,
      ROOM    |-> IF has("ROOM") THEN row.ROOM ELSE NaN,
      GROUP   |-> IF has("GROUP") THEN row.GROUP ELSE NaN,
      INTAKE  |-> IF has("INTAKE") THEN row.INTAKE ELSE NaN ]

Upload(view, cols, rows) ==
    [ file |-> "ok", view |-> view, columns |-> cols,
      rows |-> [i \in DOMAIN rows |-> Cells(rows[i], cols)] ]

\* Rows of one day that vary the start slot, the room and the teacher.
GridRows ==
    { RawRow("Monday", hms(t), "Math", teacher, room, "G1", "JAN") :
        t \in {SlotStart, SlotEnd - SlotStep, SlotEnd},
        teacher \in {"A", "B"}, room \in {"101", "102"} } \
    { RawRow("Monday", hms(t), "Math", "B", "102", "G1", "JAN") :
        t \in {SlotStart, SlotEnd - SlotStep, SlotEnd} }

\* Rows that vary the day label (recognised, unrecognised, padded, empty) and
\* leave some days without a valid room.
DayRows ==
    { RawRow(day, hms(SlotStart), "Math", "A", "101", "G1", "JAN") :
        day \in {"FRI", "Monday", " Monday", "wed", "Exam", "Camp", NaN} }
    \cup { RawRow(day, hms(SlotStart), "Math", "A", "", "G1", "JAN") :
        day \in {"Monday", "Exam"} }

\* Column sets: the required ones, some of them absent, renamed or duplicated.
ColumnSets ==
    { {"START TIME"} \cup (AllColumns \ lack) :
        lack \in { {}, {"DAY"}, {"SUBJECT"}, {"TEACHER"}, {"ROOM"}, {"GROUP"},
                   {"INTAKE"}, AllColumns } }
    \cup { AllColumns \ {"START TIME"},
           {"SUBJECT", "TEACHER"},
           {"Day ", "SUBJECT", "Teacher"},
           {"Day ", " start time", "SUBJECT", "Teacher", "ROOM", "GROUP", "INTAKE"},
           AllColumns \cup {"DAY.1"},
           (AllColumns \ {"DAY"}) \cup {"Day ", "DAY.1"},
           AllColumns \cup {"END TIME"} }

\* Rows that vary the start-time cell: on the axis, off the axis, a date-time
\* value, unparseable text, empty.
TimeRows ==
    { [RawRow("Monday", start, "Math", "A", "101", "G1", "JAN") EXCEPT !.DAY1 = "FRI"] :
        start \in {hms(SlotStart), hms(OffAxisTime), dt(SlotStart + SlotStep), junk, blank} }

\* Rows that vary the text cells (padded, empty, the text "nan") and the
\* intake/group labels of one class.
TextRows ==
    { RawRow("Monday", hms(SlotStart), "Math", teacher, room, "G1", "JAN") :
        teacher \in {"A", " A", NaN}, room \in {"101", " 101 "} }
    \cup { RawRow("Monday", hms(SlotStart), "Math", "A", "nan", "G1", "JAN") }

LabelRows ==
    { RawRow("Monday", hms(SlotStart), subject, "A", "101", group, "JAN") :
        subject \in {"Math", "Sci"}, group \in {"G1", "G2", NaN} }

(***************************************************************************)
(* handle_request                                                          *)
(***************************************************************************)
NoResponse == [status |-> 0, error |-> "", found |-> {}]

Init ==
    /\ \/ \E view \in {"room", "teacher"} :
            \E rows \in SeqUpTo(GridRows, MaxRows) \cup SeqUpTo(TextRows, MaxRows) :
                request = Upload(view, AllColumns, rows)
       \/ \E rows \in SeqUpTo(DayRows, MaxRows) \cup SeqUpTo(LabelRows, MaxRows) :
            request = Upload("room", AllColumns, rows)
       \/ \E cols \in ColumnSets :
            \E rows \in SeqUpTo(TimeRows, MaxRows) :
                request = Upload("room", cols, rows)
       \/ \E f \in {"none", "unnamed", "corrupt"} :
            request = [file |-> f, view |-> "room", columns |-> {}, rows |-> <<>>]
    /\ pc = "request"
    /\ df = <<>>
    /\ df_columns = {}
    /\ df_grouped = <<>>
    /\ unique_days = <<>>
    /\ day_i = 0
    /\ row_i = 0
    /\ unique_primary = <<>>
    /\ matrix_df = <<>>
    /\ sheets = <<>>
    /\ response = NoResponse

Respond(status, error, found) ==
    /\ response' = [status |-> status, error |-> error, found |-> found]
    /\ pc' = "done"

\* 'file' not in request.files
RejectNoFile ==
    /\ pc = "request"
    /\ request.file = "none"
    /\ Respond(400, "No file part", {})
    /\ UNCHANGED <<request, df, df_columns, df_grouped, unique_days, day_i, row_i,
                   unique_primary, matrix_df, sheets>>

\* file.filename == ''
RejectNoName ==
    /\ pc = "request"
    /\ request.file = "unnamed"
    /\ Respond(400, "No selected file", {})
    /\ UNCHANGED <<request, df, df_columns, df_grouped, unique_days, day_i, row_i,
                   unique_primary, matrix_df, sheets>>

\* pd.read_excel raises: ValueError("Invalid Excel file: ..."), caught as 400.
LoadInvalidFile ==
    /\ pc = "request"
    /\ request.file = "corrupt"
    /\ Respond(400, "Invalid Excel file", {})
    /\ UNCHANGED <<request, df, df_columns, df_grouped, unique_days, day_i, row_i,
                   unique_primary, matrix_df, sheets>>

\* Faulty variant: every exception is reported as an unexpected failure.
StatusAlways500(exception) == 500

\* The status of the handler's except clauses for an exception of load_and_clean_data
\* or generate_schedule_excel.
StatusOf(exception) == IF exception = "ValueError" THEN 400 ELSE 500

\* The columns the missing-column message lists.
FoundColumns(cols) == NormalizedColumns(cols)

\* START TIME missing: ValueError listing list(df.columns).
LoadSchemaError ==
    /\ pc = "request"
    /\ request.file = "ok"
    /\ ~SchemaOk(request.columns)
    /\ Respond(StatusOf("ValueError"), "Missing critical column: START TIME",
               FoundColumns(request.columns))
    /\ UNCHANGED <<request, df, df_columns, df_grouped, unique_days, day_i, row_i,
                   unique_primary, matrix_df, sheets>>

LoadAndClean ==
    /\ pc = "request"
    /\ request.file = "ok"
    /\ SchemaOk(request.columns)
    /\ df' = load_and_clean_data(request.rows, request.columns)
    /\ df_columns' = CleanedColumns(request.columns)
    /\ pc' = "loaded"
    /\ UNCHANGED <<request, df_grouped, unique_days, day_i, row_i,
                   unique_primary, matrix_df, sheets, response>>

\* groupby raises KeyError without a DAY column; the join raises TypeError on NaN.
GroupingRaises == "DAY" \notin df_columns \/ JoinRaises(df)

GroupingError ==
    /\ pc = "loaded"
    /\ GroupingRaises
    /\ Respond(StatusOf(IF "DAY" \notin df_columns THEN "KeyError" ELSE "TypeError"),
               "Internal Server Error", {})
    /\ UNCHANGED <<request, df, df_columns, df_grouped, unique_days, day_i, row_i,
                   unique_primary, matrix_df, sheets>>

\* Grouping Logic and the day order.
GroupAndOrder ==
    /\ pc = "loaded"
    /\ ~GroupingRaises
    /\ df_grouped' = Grouped(df)
    /\ unique_days' = UniqueDays(Grouped(df))
    /\ day_i' = 1
    /\ pc' = "days"
    /\ UNCHANGED <<request, df, df_columns, row_i, unique_primary, matrix_df,
                   sheets, response>>

CurrentDay == unique_days[day_i]

CurrentDayData == DayData(df_grouped, CurrentDay)

\* if day_data.empty: continue / if not unique_primary: continue
DaySkipped ==
    \/ CurrentDayData = <<>>
    \/ UniquePrimary(CurrentDayData, request.view) = <<>>

SkipDay ==
    /\ pc = "days"
    /\ day_i <= Len(unique_days)
    /\ DaySkipped
    /\ day_i' = day_i + 1
    /\ UNCHANGED <<request, pc, df, df_columns, df_grouped, unique_days, row_i,
                   unique_primary, matrix_df, sheets, response>>

\* Initialize Matrix
StartDay ==
    /\ pc = "days"
    /\ day_i <= Len(unique_days)
    /\ ~DaySkipped
    /\ unique_primary' = UniquePrimary(CurrentDayData, request.view)
    /\ matrix_df' = InitMatrix(UniquePrimary(CurrentDayData, request.view), request.view)
    /\ row_i' = 1
    /\ pc' = "fill"
    /\ UNCHANGED <<request, df, df_columns, df_grouped, unique_days, day_i,
                   sheets, response>>

\* Fill Matrix: one iteration of the loop over day_data.
FillRow ==
    /\ pc = "fill"
    /\ row_i <= Len(CurrentDayData)
    /\ matrix_df' = FillMatrix(matrix_df, CurrentDayData[row_i], request.view)
    /\ row_i' = row_i + 1
    /\ UNCHANGED <<request, pc, df, df_columns, df_grouped, unique_days, day_i,
                   unique_primary, sheets, response>>

\* str(day).split(' ')[0].upper()[:30] is the renderer's sheet name; the sheet
\* keeps the day label, the row order and the matrix.
Sheet(day, index, m) == [day |-> day, index |-> index, matrix |-> m]

\* Write Sheet
WriteSheet ==
    /\ pc = "fill"
    /\ row_i > Len(CurrentDayData)
    /\ sheets' = Append(sheets, Sheet(CurrentDay, unique_primary, matrix_df))
    /\ day_i' = day_i + 1
    /\ pc' = "days"
    /\ UNCHANGED <<request, df, df_columns, df_grouped, unique_days, row_i,
                   unique_primary, matrix_df, response>>

\* Leaving the writer saves the workbook; openpyxl refuses a workbook without a
\* sheet (IndexError), which the handler reports as 500.
Finish ==
    /\ pc = "days"
    /\ day_i > Len(unique_days)
    /\ IF sheets = <<>>
       THEN Respond(StatusOf("IndexError"), "Internal Server Error", {})
       ELSE Respond(200, "", {})
    /\ UNCHANGED <<request, df, df_columns, df_grouped, unique_days, day_i, row_i,
                   unique_primary, matrix_df, sheets>>

Next ==
    \/ RejectNoFile
    \/ RejectNoName
    \/ LoadInvalidFile
    \/ LoadSchemaError
    \/ LoadAndClean
    \/ GroupingError
    \/ GroupAndOrder
    \/ SkipDay
    \/ StartDay
    \/ FillRow
    \/ WriteSheet
    \/ Finish

Spec == Init /\ [][Next]_vars

(***************************************************************************)
(* Vocabulary of the properties.                                           *)
(***************************************************************************)
RECURSIVE Segments(_)
\* The texts a cell holds: its pieces split at the separator lines.
Segments(cell) ==
    IF cell = NaNCell \/ cell = <<>> THEN <<>>
    ELSE IF \E i \in 1..Len(cell) : cell[i] = Separator
    THEN LET i == CHOOSE k \in 1..Len(cell) :
                    cell[k] = Separator /\ \A j \in 1..(k - 1) : cell[j] # Separator
         IN  <<SubSeq(cell, 1, i - 1)>> \o Segments(SubSeq(cell, i + 1, Len(cell)))
    ELSE <<cell>>

\* Position of a time text on the axis (0 when it is not on it).
SlotNoOf ==
    [txt \in {ClockTexts[t] : t \in ClockTimes} |->
        IF \E k \in 1..Len(time_slots) : time_slots[k] = txt
        THEN CHOOSE k \in 1..Len(time_slots) : time_slots[k] = txt
        ELSE 0]

SlotNo(txt) == SlotNoOf[txt]

LastSlotNo == Len(time_slots)

\* Where an occupancy entry belongs: its row, its slot on the axis (0 when its
\* start time is off the axis) and its display text.
Placement(e) ==
    [ row  |-> PrimaryVal(e, request.view),
      slot |-> SlotNo(e.START),
      text |-> CellText(e, request.view) ]

PlacementsOf(entries) == [i \in 1..Len(entries) |-> Placement(entries[i])]

\* The placements of the occupancy entries of a day, in grouped order.
DayPlacements(day) == PlacementsOf(SelectSeq(df_grouped, LAMBDA e : e.DAY = day))

\* The texts of the placements with row r and slot k, in order.
TextsAt(ps, r, k) ==
    LET sel == SelectSeq(ps, LAMBDA p : p.row = r /\ p.slot = k)
    IN  [i \in 1..Len(sel) |-> sel[i].text]

SlotCell(sheet, r, k) == sheet.matrix[r][time_slots[k]]

Holds(cell, text) == text \in Range(Segments(cell))

SheetSet == Range(sheets)

\* C1 (spillover): in every emitted matrix, an entry whose primary value is a
\* row and whose start time is axis slot k has its display text in cell
\* (primary, k); when k is not the last slot also in cell (primary, k+1); the
\* matrix has exactly the primary column and the axis as columns, and an entry
\* at the last slot puts its text in no other cell (a cell of the row holds
\* that text only for an entry that starts there or one slot earlier).
C1_Spillover ==
    \A sheet \in SheetSet :
        LET ps == DayPlacements(sheet.day) IN
        /\ \A r \in Range(sheet.index) :
              DOMAIN sheet.matrix[r] = {primary_col(request.view)} \cup Range(time_slots)
        /\ \A i \in 1..Len(ps) :
              (ps[i].row \in Range(sheet.index) /\ ps[i].slot > 0) =>
                  /\ Holds(SlotCell(sheet, ps[i].row, ps[i].slot), ps[i].text)
                  /\ ps[i].slot < LastSlotNo =>
                        Holds(SlotCell(sheet, ps[i].row, ps[i].slot + 1), ps[i].text)
                  /\ ps[i].slot = LastSlotNo =>
                        \A j \in 1..LastSlotNo :
                            Holds(SlotCell(sheet, ps[i].row, j), ps[i].text) =>
                                \E i2 \in 1..Len(ps) :
                                    /\ ps[i2].row = ps[i].row
                                    /\ ps[i2].text = ps[i].text
                                    /\ ps[i2].slot > 0
                                    /\ ps[i2].slot \in {j, j - 1}

\* An emitted matrix holds an entry at the last slot and one at the slot before.
C1_Witness ==
    \E sheet \in SheetSet :
        LET ps == DayPlacements(sheet.day) IN
        \E i, j \in 1..Len(ps) :
            /\ ps[i].row \in Range(sheet.index)
            /\ ps[j].row \in Range(sheet.index)
            /\ ps[i].slot = LastSlotNo
            /\ ps[j].slot = LastSlotNo - 1

\* Two placements of a sheet's day that collide: same row, same start slot.
Collide(sheet, ps, i, j) ==
    /\ i < j
    /\ ps[i].row \in Range(sheet.index)
    /\ ps[i].slot > 0
    /\ ps[j].row = ps[i].row
    /\ ps[j].slot = ps[i].slot

CollisionsAccumulated ==
    \A sheet \in SheetSet :
        LET ps == DayPlacements(sheet.day) IN
        \A i, j \in 1..Len(ps) :
            Collide(sheet, ps, i, j) =>
                LET segs == Segments(SlotCell(sheet, ps[i].row, ps[i].slot))
                IN  \E a, b \in 1..Len(segs) :
                        /\ a < b
                        /\ segs[a] = ps[i].text
                        /\ segs[b] = ps[j].text

\* The texts the placements ps have written into cell (r, slot k), in the
\* order of the writes.
Written(ps, r, k) ==
    LET sel == SelectSeq(ps, LAMBDA p : p.row = r /\ p.slot > 0 /\ p.slot \in {k, k - 1})
    IN  [i \in 1..Len(sel) |-> sel[i].text]

\* At every point of the fill loop a cell holds all the texts written into it
\* so far, in write order: no write removed or replaced an earlier one.
NothingOverwritten ==
    pc = "fill" =>
        LET ps == PlacementsOf(SubSeq(CurrentDayData, 1, row_i - 1)) IN
        \A r \in DOMAIN matrix_df :
            \A k \in 1..LastSlotNo :
                Segments(matrix_df[r][time_slots[k]]) = Written(ps, r, k)

\* C2 (collision accumulation): two distinct entries of a day with the same
\* primary value and start time both have their display text in the cell
\* (primary, start), the later-grouped one after the earlier one and after a
\* separator line; and no write into a non-empty cell removes or changes the
\* text the cell already held.
C2_CollisionAccumulation == CollisionsAccumulated /\ NothingOverwritten

\* An emitted matrix with two colliding entries.
C2_Witness ==
    \E sheet \in SheetSet :
        LET ps == DayPlacements(sheet.day) IN
        \E i, j \in 1..Len(ps) : Collide(sheet, ps, i, j)

\* C10 (cell provenance and write order): in every emitted matrix, the cell
\* (row r, slot k) holds exactly one segment for each entry of that day with
\* primary value r that starts at slot k-1 or at slot k, the segments of the
\* entries starting at k-1 before those of the entries starting at k, and
\* nothing else; a cell without such an entry is empty.
C10_CellProvenance ==
    \A sheet \in SheetSet :
        LET ps == DayPlacements(sheet.day) IN
        \A r \in Range(sheet.index) :
            \A k \in 1..LastSlotNo :
                LET expected == (IF k > 1 THEN TextsAt(ps, r, k - 1) ELSE <<>>)
                                \o TextsAt(ps, r, k)
                IN  /\ Segments(SlotCell(sheet, r, k)) = expected
                    /\ expected = <<>> <=> SlotCell(sheet, r, k) = NaNCell

\* An emitted cell holds the spillover of the previous slot and then the text
\* of an entry starting at its own slot.
C10_Witness ==
    \E sheet \in SheetSet :
        LET ps == DayPlacements(sheet.day) IN
        \E r \in Range(sheet.index) :
            \E k \in 2..LastSlotNo :
                /\ TextsAt(ps, r, k - 1) # <<>>
                /\ TextsAt(ps, r, k) # <<>>
                /\ Len(Segments(SlotCell(sheet, r, k))) >= 2

(***************************************************************************)
(* Day order.                                                              *)
(***************************************************************************)
\* The weekday a day label names (Monday = 0 ... Sunday = 6) once trimmed and
\* uppercased, or 7 when it names none; stated on the labels of the uploads.
Weekday(label) ==
    CASE label \in {"Monday", " Monday"} -> 0
      [] label = "wed"                   -> 2
      [] label = "FRI"                   -> 4
      [] OTHER                           -> 7

Recognized(label) == Weekday(label) < 7

SheetDays == [i \in 1..Len(sheets) |-> sheets[i].day]

\* C3 (day ordering): of two emitted days with different recognized weekdays
\* the one with the lower rank comes first, and every day whose label names
\* no weekday comes after every recognized one.
C3_DayOrdering ==
    \A i, j \in 1..Len(sheets) :
        i < j =>
            /\ Recognized(SheetDays[j]) => Recognized(SheetDays[i])
            /\ Weekday(SheetDays[i]) <= Weekday(SheetDays[j])

\* The records name FRI, Monday, wed in this order and the matrices come out
\* as Monday, wed, FRI.
C3_Witness ==
    /\ pc = "done"
    /\ [i \in 1..Len(df) |-> df[i].DAY] = <<"FRI", "Monday", "wed">>
    /\ SheetDays = <<"Monday", "wed", "FRI">>

\* Position of the first record that carries the day label.
FirstSeen(day) == CHOOSE i \in 1..Len(df) : df[i].DAY = day /\ \A j \in 1..(i - 1) : df[j].DAY # day

\* C4 as stated: the matrices of the unrecognized day labels come out in the
\* order in which the labels first appear in the input records.
C4_EncounterOrder ==
    \A i, j \in 1..Len(sheets) :
        (i < j /\ ~Recognized(SheetDays[i]) /\ ~Recognized(SheetDays[j]))
            => FirstSeen(SheetDays[i]) < FirstSeen(SheetDays[j])

\* C4 amended: the matrices of the unrecognized day labels come out in
\* ascending text order of the labels (the order of the grouped keys),
\* whatever the order of the input records.
C4_LabelOrder ==
    \A i, j \in 1..Len(sheets) :
        (i < j /\ ~Recognized(SheetDays[i]) /\ ~Recognized(SheetDays[j]))
            => StrLess(SheetDays[i], SheetDays[j])

\* Two unrecognized labels are emitted in the reverse of their input order.
C4_Witness ==
    \E i, j \in 1..Len(sheets) :
        /\ i < j
        /\ ~Recognized(SheetDays[i])
        /\ ~Recognized(SheetDays[j])
        /\ FirstSeen(SheetDays[j]) < FirstSeen(SheetDays[i])

(***************************************************************************)
(* Normalisation.                                                          *)
(***************************************************************************)
\* The upload has a START TIME column once its column names are trimmed and
\* uppercased.
HasStartTime == \E c \in request.columns : c \in {"START TIME", " start time"}

\* load_and_clean_data has been called on a readable file.
Normalized == request.file = "ok" /\ pc # "request"

\* C5 (schema failure): normalising an upload without a START TIME column
\* yields no records and ends the request with status 400 (not 500) and a
\* message that lists exactly the columns found, trimmed and uppercased.
C5_SchemaFailure ==
    (Normalized /\ ~HasStartTime) =>
        /\ pc = "done"
        /\ response.status = 400
        /\ response.error = "Missing critical column: START TIME"
        /\ response.found = {Upper(Strip(c)) : c \in request.columns}
        /\ df = <<>>
        /\ sheets = <<>>

\* The table with the columns SUBJECT and TEACHER only is refused, and the
\* message lists these two.
C5_Witness ==
    /\ request.columns = {"SUBJECT", "TEACHER"}
    /\ response.status = 400
    /\ response.found = {"SUBJECT", "TEACHER"}

\* C6 as stated: every record returned by normalisation has a start time that
\* is an entry of the slot axis (a valid time off the axis is excluded).
C6_StartOnAxis ==
    (Normalized /\ HasStartTime) =>
        \A i \in 1..Len(df) : df[i].START \in Range(time_slots)

\* The raw rows whose start-time cell is a time of day (as text or as a
\* date-time value), by 0-based position.
TimedRows == {i \in 1..Len(request.rows) : request.rows[i].START.kind \in {"hms", "dt"}}

\* C6 amended: every record returned by normalisation has a start time that
\* is present and reads HH:MM:SS; the records are exactly the rows whose
\* start-time cell is a time of day, so a row with a missing or unparseable
\* start time is excluded; a valid time that is not on the axis is kept by
\* normalisation and is left out only by the grid builder, which writes it
\* into no cell.
C6_StartWellFormed ==
    (Normalized /\ HasStartTime) =>
        /\ Len(df) = Cardinality(TimedRows)
        /\ \A i \in 1..Len(df) :
              /\ df[i].START # NaN
              /\ df[i].idx + 1 \in TimedRows
              /\ df[i].START = strftime(request.rows[df[i].idx + 1].START.secs)
              /\ \A j \in 1..(i - 1) : df[j].idx < df[i].idx
        /\ \A sheet \in SheetSet :
              LET ps == DayPlacements(sheet.day) IN
              \A r \in Range(sheet.index) :
                  \A k \in 1..LastSlotNo :
                      Len(Segments(SlotCell(sheet, r, k))) = Len(Written(ps, r, k))

\* A request that dropped a row, kept a record whose start time is off the
\* axis, and emitted a matrix.
C6_Witness ==
    /\ pc = "done"
    /\ sheets # <<>>
    /\ Len(df) < Len(request.rows)
    /\ \E i \in 1..Len(df) : df[i].START = "09:00:00" /\ SlotNo(df[i].START) = 0

\* The required columns other than START TIME that the upload lacks.
AbsentColumns ==
    {col \in {"DAY", "SUBJECT", "TEACHER", "ROOM", "GROUP", "INTAKE"} :
        ~\E c \in request.columns : Upper(Strip(c)) = col}

RecordField(r, col) ==
    CASE col = "DAY"     -> r.DAY
      [] col = "SUBJECT" -> r.SUBJECT
      [] col = "TEACHER" -> r.TEACHER
      [] col = "ROOM"    -> r.ROOM
      [] col = "GROUP"   -> r.GROUP
      [] col = "INTAKE"  -> r.INTAKE

\* C7 as stated: with a START TIME column present, every required column the
\* upload lacks equals the empty text in every surviving record, never a
\* missing value, also when rows were dropped.
C7_AbsentColumnsEmpty ==
    (Normalized /\ HasStartTime) =>
        \A col \in AbsentColumns :
            \A i \in 1..Len(df) : RecordField(df[i], col) = ""

\* The frame has been grouped.
GroupedDone == pc \in {"days", "fill"} \/ (pc = "done" /\ day_i >= 1)

RecordKeys == {GroupKey(df[i]) : i \in 1..Len(df)}

LabelsOf(key) ==
    LET rows == SelectSeq(df, LAMBDA r : GroupKey(r) = key)
    IN  [i \in 1..Len(rows) |-> rows[i].INTAKE_GROUP]

\* C8 as stated: grouping yields exactly one entry per distinct key of the
\* records, and the entry lists the intake_group values of all records with
\* that key, newline-joined, each once, in order of first appearance; no
\* record's label is lost.
C8_RowPreservation ==
    GroupedDone =>
        /\ Len(df_grouped) = Cardinality(RecordKeys)
        /\ {GroupKey(df_grouped[i]) : i \in 1..Len(df_grouped)} = RecordKeys
        /\ \A i \in 1..Len(df_grouped) :
              df_grouped[i].INTAKE_GROUP
                  = Join(Unique(LabelsOf(GroupKey(df_grouped[i]))), "\n")

(***************************************************************************)
(* Rows of a matrix and skipped days.                                      *)
(***************************************************************************)
ValidPrimaries(day) ==
    {PrimaryVal(df_grouped[i], request.view) :
        i \in {j \in 1..Len(df_grouped) : df_grouped[j].DAY = day}} \ {"", "nan"}

\* The days the day loop has gone through.
DaysDone ==
    SubSeq(unique_days, 1, day_i - 1)

\* C9 (row filtering and empty-day elision): the rows of an emitted matrix are
\* the distinct primary values of the day's entries other than "" and "nan",
\* in ascending order; the matrix has no other row, so an entry with an
\* excluded primary value is in no cell; and the emitted days are, in order,
\* exactly the days gone through that have a valid primary value, each once.
C9_RowsAndElision ==
    GroupedDone =>
        /\ \A sheet \in SheetSet :
              LET ps == DayPlacements(sheet.day) IN
              /\ Range(sheet.index) = ValidPrimaries(sheet.day)
              /\ DOMAIN sheet.matrix = ValidPrimaries(sheet.day)
              /\ \A i, j \in 1..Len(sheet.index) :
                    i < j => StrLess(sheet.index[i], sheet.index[j])
              /\ \A r \in Range(sheet.index) :
                    \A k \in 1..LastSlotNo :
                        \A t \in Range(Segments(SlotCell(sheet, r, k))) :
                            \E i \in 1..Len(ps) : ps[i].row = r /\ ps[i].text = t
        /\ SheetDays = SelectSeq(DaysDone, LAMBDA d : ValidPrimaries(d) # {})

\* A finished request that skipped a day and emitted a matrix of a day that
\* also has an entry with an excluded primary value.
C9_Witness ==
    /\ pc = "done"
    /\ \E d \in Range(unique_days) : ValidPrimaries(d) = {}
    /\ \E sheet \in SheetSet :
          LET ps == DayPlacements(sheet.day) IN
          \E i \in 1..Len(ps) : ps[i].row \in {"", "nan"}

====
